---- MODULE Spec2Model ----
(***************************************************************************)
(* Electric Ireland insights integration: the authentication flow of      *)
(* ElectricIrelandScraper, MeterInsightScraper.get_data and the refresh    *)
(* cycle Sensor.async_update_historical of sensors sharing one scraper,    *)
(* and the hourly statistics of Sensor.async_calculate_statistic_data.     *)
(*                                                                         *)
(* Python's None is the string None for optional strings and the record    *)
(* Null for optional objects.  Text that the code strips is a sequence of  *)
(* characters, SP being white space.                                       *)
(***************************************************************************)
EXTENDS Integers, Sequences, FiniteSets, TLC

VARIABLES account_number, scraper, thread, sensor, pool, now, call, stat

vars == <<account_number, scraper, thread, sensor, pool, now, call, stat>>

None == "None"
Null == [null |-> TRUE]
SP == " "

\* Python truthiness of an optional string.
Falsy(x) == x = None \/ x = ""

----------------------------------------------------------------------------
\* Bounds of the model.

\* Number of sensors of async_setup_entry that are modelled (of its eight).
NumSensors == 2
\* Longest dashboard (number of account entries) the portal returns.
MaxAccounts == 2

\* Last reading of the clock, in hours.
MaxNow == 30
\* Most raw records in the payload of one usage answer.
MaxRecords == 2
\* Most historical states in one call of async_calculate_statistic_data.
MaxSamples == 3
\* Bits of precision of a float (Python's has 53): the integers below
\* 2^MantissaBits are floats, beyond them every second one, then every
\* fourth, and so on.
MantissaBits == 3

Sensors == 1 .. NumSensors

----------------------------------------------------------------------------
\* The portal's answers to the three requests of the authentication flow.

\* requests' exception classes: ConnectTimeout is both a ConnectionError and
\* a Timeout; every one is a RequestException.
Exceptions == {"ReadTimeout", "ConnectTimeout", "ConnectionError", "HTTPError"}
IsTimeout(e) == e \in {"ReadTimeout", "ConnectTimeout"}
IsConnectionError(e) == e \in {"ConnectTimeout", "ConnectionError"}
IsRequestException(e) == e \in Exceptions

OptTokens == {None, "", "tok"}

\* Answer to GET /: an exception, or a page with (or without) the Source
\* field and the rvt cookie.
HomeResponses ==
    {[exc |-> "HTTPError", source |-> None, rvt |-> None]}
    \cup [exc : {None}, source : OptTokens, rvt : OptTokens]

\* Text of an account-number element (NoElement when the entry has none).
NoElement == <<None>>
AccountTexts == {NoElement, <<"1">>, <<"2">>, <<SP, "1", SP>>}

\* A div.my-accounts__item: its account number text, the number of
\* h2.account-electricity-icon elements and whether it holds the OnEvent form.
AccountDivs == [number : AccountTexts, markers : 0 .. 2, form : BOOLEAN]

Dashboards == UNION {[1 .. n -> AccountDivs] : n \in 0 .. MaxAccounts}

\* A dashboard on which account 1 resolves.
GoodDashboard == <<[number |-> <<"1">>, markers |-> 1, form |-> TRUE]>>

\* Answer to the login POST.  username_field and log_in tell whether the
\* body holds "LoginFormData.UserName" and "Log in"; validation is the class
\* of the provider's error element, if any.  An exception carries no page;
\* a page is the login page again (with or without account entries) or a
\* dashboard.
LoginResponses ==
    [exc : Exceptions, username_field : {FALSE}, log_in : {FALSE},
     validation : {None}, accounts : {<<>>}]
    \cup ([exc : {None}, username_field : BOOLEAN, log_in : BOOLEAN,
           validation : {None, "field-validation-error", "validation-summary-errors"},
           accounts : {<<>>, GoodDashboard}]
          \ [exc : {None}, username_field : {FALSE}, log_in : {FALSE},
             validation : {None, "field-validation-error", "validation-summary-errors"},
             accounts : {<<>>, GoodDashboard}])
    \cup [exc : {None}, username_field : {FALSE}, log_in : {FALSE},
          validation : {None}, accounts : Dashboards]

\* Answer to the navigation POST: div#modelData and its three attributes.
InsightsResponses ==
    {[exc |-> "HTTPError", model_data |-> FALSE,
      partner |-> None, contract |-> None, premise |-> None],
     [exc |-> None, model_data |-> FALSE,
      partner |-> None, contract |-> None, premise |-> None]}
    \cup [exc : {None}, model_data : {TRUE},
          partner : OptTokens, contract : OptTokens, premise : OptTokens]

----------------------------------------------------------------------------
\* str.strip()
RECURSIVE LStrip(_)
LStrip(s) == IF s # <<>> /\ Head(s) = SP THEN LStrip(Tail(s)) ELSE s

RECURSIVE RStrip(_)
RStrip(s) ==
    IF s # <<>> /\ s[Len(s)] = SP THEN RStrip(SubSeq(s, 1, Len(s) - 1)) ELSE s

Strip(s) == RStrip(LStrip(s))

\* A faulty test of an account entry: any number of markers will do.
AccountMatches_AnyMarker(div, target) ==
    /\ div.number # NoElement
    /\ Strip(div.number) = target
    /\ div.markers >= 1

\* The test of one account entry in the loop of __login_and_get_meter_ids.
AccountMatches(div, target) ==
    /\ div.number # NoElement
    /\ Strip(div.number) = target
    /\ div.markers = 1

\* The loop over account_divs: the index of the first matching entry, 0 for
\* target_account = None.
RECURSIVE FindTargetFrom(_, _, _)
FindTargetFrom(divs, target, i) ==
    IF i > Len(divs) THEN 0
    ELSE IF AccountMatches(divs[i], target) THEN i
    ELSE FindTargetFrom(divs, target, i + 1)

FindTarget(divs, target) == FindTargetFrom(divs, target, 1)

\* Faulty handlers of the login POST: ConnectionError is caught first.
LoginExceptLog_ConnectionFirst(e) ==
    IF IsConnectionError(e) THEN <<"Connection error during login", "INFO check network">>
    ELSE IF IsTimeout(e) THEN <<"Login POST request timed out", "INFO website may be slow">>
    ELSE <<"Login POST request failed">>

\* The handlers of the login POST, in the order of the except clauses.
LoginExceptLog(e) ==
    IF IsTimeout(e) THEN <<"Login POST request timed out", "INFO website may be slow">>
    ELSE IF IsConnectionError(e) THEN <<"Connection error during login", "INFO check network">>
    ELSE <<"Login POST request failed">>

\* A faulty login-page check: the "Log in" literal is not looked for.
StillOnLoginPage_FieldOnly(res2) == res2.username_field

\* The login-page check on res2.text.
StillOnLoginPage(res2) == res2.username_field \/ res2.log_in

\* A faulty check of the meter ids: any([partner, contract, premise]).
AllMeterIds_Any(res3) ==
    ~Falsy(res3.partner) \/ ~Falsy(res3.contract) \/ ~Falsy(res3.premise)

\* all([partner, contract, premise])
AllMeterIds(res3) ==
    ~Falsy(res3.partner) /\ ~Falsy(res3.contract) /\ ~Falsy(res3.premise)

----------------------------------------------------------------------------
\* The thread running refresh_credentials for a sensor's refresh cycle.
\* pc: idle (not running), bootstrap / login / navigate (the request is
\* sent, its answer awaited), returned.  requests and log are what the
\* attempt sent and logged; err (the exception caught), source, rvt, res2,
\* target_account, res3 and meter_ids are the flow's locals, kept until the
\* next attempt starts.

IdleThread ==
    [pc |-> "idle", requests |-> <<>>, log |-> <<>>, err |-> None,
     source |-> None, rvt |-> None, res2 |-> Null, target_account |-> 0, res3 |-> Null, meter_ids |-> Null]

\* refresh_credentials up to the first request of the flow.
StartedThread ==
    [IdleThread EXCEPT !.pc = "bootstrap", !.requests = <<"GET /">>]

\* `return None` of the flow after logging msgs; refresh_credentials then
\* returns without touching the cached scraper.
ReturnNone(t, msgs) ==
    [t EXCEPT !.pc = "returned", !.log = t.log \o msgs, !.meter_ids = Null]

\* A faulty REQUEST 1: the rvt cookie is not checked.
AfterBootstrap_NoRvtCheck(t, res1) ==
    IF res1.exc # None
        THEN ReturnNone([t EXCEPT !.err = res1.exc], <<"Failed to connect to home page">>)
    ELSE IF Falsy(res1.source)
        THEN ReturnNone([t EXCEPT !.source = res1.source, !.rvt = res1.rvt],
                        <<"SCRAPE FAIL: no Source">>)
    ELSE [t EXCEPT !.source = res1.source, !.rvt = res1.rvt, !.pc = "login",
                   !.requests = t.requests \o <<"POST /">>]

\* REQUEST 1 answered.
AfterBootstrap(t, res1) ==
    IF res1.exc # None
        THEN ReturnNone([t EXCEPT !.err = res1.exc], <<"Failed to connect to home page">>)
    ELSE IF Falsy(res1.source)
        THEN ReturnNone([t EXCEPT !.source = res1.source, !.rvt = res1.rvt],
                        <<"SCRAPE FAIL: no Source">>)
    ELSE IF Falsy(res1.rvt)
        THEN ReturnNone([t EXCEPT !.source = res1.source, !.rvt = res1.rvt],
                        <<"SCRAPE FAIL: no rvt">>)
    ELSE [t EXCEPT !.source = res1.source, !.rvt = res1.rvt, !.pc = "login",
                   !.requests = t.requests \o <<"POST /">>]

\* REQUEST 2 answered: login check, account resolution, REQUEST 3 sent.
AfterLogin(t, res2, target) ==
    IF res2.exc # None
        THEN ReturnNone([t EXCEPT !.err = res2.exc], LoginExceptLog(res2.exc))
    ELSE IF StillOnLoginPage(res2)
        THEN ReturnNone([t EXCEPT !.res2 = res2],
                        <<"LOGIN FAILED",
                          IF res2.validation # None THEN "WEBSITE ERROR MESSAGE"
                          ELSE "Could not find a specific error message">>)
    ELSE LET i == FindTarget(res2.accounts, target)
             u == [t EXCEPT !.res2 = res2, !.target_account = i]
         IN  IF i = 0 THEN ReturnNone(u, <<"Failed to find Target Account">>)
             ELSE IF ~res2.accounts[i].form
                 THEN ReturnNone(u, <<"Failed to find the OnEvent form">>)
             ELSE [u EXCEPT !.pc = "navigate",
                            !.requests = t.requests \o <<"POST /Accounts/OnEvent">>]

\* REQUEST 3 answered: the meter ids, or None.
AfterNavigate(t, res3) ==
    IF res3.exc # None
        THEN ReturnNone([t EXCEPT !.err = res3.exc], <<"Failed to Navigate to Insights">>)
    ELSE IF ~res3.model_data
        THEN ReturnNone([t EXCEPT !.res3 = res3], <<"Failed to find modelData">>)
    ELSE IF ~AllMeterIds(res3)
        THEN ReturnNone([t EXCEPT !.res3 = res3], <<"Missing meter IDs">>)
    ELSE [t EXCEPT !.res3 = res3, !.pc = "returned",
                   !.log = t.log \o <<"SUCCESS: Found meter IDs">>,
                   !.meter_ids = [partner |-> res3.partner,
                                  contract |-> res3.contract,
                                  premise |-> res3.premise]]

\* MeterInsightScraper(session, meter_ids); the session is the one the
\* thread of sensor s built.
NewScraper(s, meter_ids) ==
    [session |-> s, partner |-> meter_ids.partner,
     contract |-> meter_ids.contract, premise |-> meter_ids.premise]

\* The tail of refresh_credentials: `if not meter_ids: return`, else the
\* scraper is replaced.
ScraperAfter(s, t, old) ==
    IF t.pc = "returned" /\ t.meter_ids # Null THEN NewScraper(s, t.meter_ids)
    ELSE old

----------------------------------------------------------------------------
\* MeterInsightScraper.get_data

\* A JSON value of a bucket: null, a number (in hundredths) or a string.
NullV == [t |-> "null", v |-> 0]
StrV == [t |-> "str", v |-> 0]
Num(n) == [t |-> "num", v |-> n]

\* `x not in (None, 0)`
NotNoneOrZero(x) == ~(x.t = "null" \/ (x.t = "num" /\ x.v = 0))

TARIFF_FLAT_RATE == "flatRate"
TARIFF_OFF_PEAK == "offPeak"
TARIFF_MID_PEAK == "midPeak"
TARIFF_ON_PEAK == "onPeak"
TARIFF_TYPES == <<TARIFF_FLAT_RATE, TARIFF_OFF_PEAK, TARIFF_MID_PEAK, TARIFF_ON_PEAK>>
Tariffs == {TARIFF_TYPES[i] : i \in 1 .. Len(TARIFF_TYPES)}

\* endDate of a raw record: missing, not an ISO date, or an instant (UTC).
NoEndDate == [kind |-> "missing", day |-> 0, hour |-> 0, minute |-> 0, second |-> 0]
BadEndDate == [kind |-> "bad", day |-> 0, hour |-> 0, minute |-> 0, second |-> 0]
EndDate(d, h, m, sec) ==
    [kind |-> "iso", day |-> d, hour |-> h, minute |-> m, second |-> sec]

\* int(end_dt.timestamp()): seconds since day 0, 00:00:00.
Timestamp(e) == ((e.day * 24 + e.hour) * 60 + e.minute) * 60 + e.second

\* A faulty schedule: the flat rate outside the night and the peak.
ExpectedTariff_FlatByDay(hour) ==
    IF hour >= 23 \/ hour < 8 THEN "offPeak"
    ELSE IF 17 <= hour /\ hour < 19 THEN "onPeak"
    ELSE "flatRate"

\* A faulty schedule: the night rate runs through hour 8.
ExpectedTariff_NightThrough8(hour) ==
    IF hour >= 23 \/ hour <= 8 THEN "offPeak"
    ELSE IF 17 <= hour /\ hour < 19 THEN "onPeak"
    ELSE "midPeak"

\* The tariff the schedule makes active at an hour of day.
ExpectedTariff(hour) ==
    IF hour >= 23 \/ hour < 8 THEN "offPeak"
    ELSE IF 17 <= hour /\ hour < 19 THEN "onPeak"
    ELSE "midPeak"

\* A faulty choice of bucket: the schedule is used in filtered mode too.
TargetTariff_AlwaysSchedule(tariff_type, hour) == ExpectedTariff(hour)

\* `if tariff_type: ... else: ...`
TargetTariff(tariff_type, hour) ==
    IF ~Falsy(tariff_type) THEN tariff_type ELSE ExpectedTariff(hour)

\* dp.get(target_tariff): the bucket, Null when the record has none.
Bucket(dp, tariff) == IF tariff \in DOMAIN dp THEN dp[tariff] ELSE Null

\* A faulty test: every bucket counts as holding data.
HasActualData_Always(usage_entry) == TRUE

\* `consumption not in (None, 0) or cost not in (None, 0)`
HasActualData(usage_entry) ==
    NotNoneOrZero(usage_entry.consumption) \/ NotNoneOrZero(usage_entry.cost)

\* The body of the loop over raw_datapoints: what one record appends.
DatapointsOf(dp, tariff_type) ==
    IF dp.endDate.kind # "iso" THEN <<>>
    ELSE LET target_tariff == TargetTariff(tariff_type, dp.endDate.hour)
             usage_entry == Bucket(dp, target_tariff)
         IN  IF usage_entry # Null /\ HasActualData(usage_entry)
             THEN <<[consumption |-> usage_entry.consumption,
                     cost |-> usage_entry.cost,
                     intervalEnd |-> Timestamp(dp.endDate),
                     tariff |-> target_tariff]>>
             ELSE <<>>

RECURSIVE Transform(_, _)
Transform(raw_datapoints, tariff_type) ==
    IF raw_datapoints = <<>> THEN <<>>
    ELSE DatapointsOf(Head(raw_datapoints), tariff_type)
         \o Transform(Tail(raw_datapoints), tariff_type)

\* 'application/json' in content_type
IsJson(content_type) ==
    content_type \in {"application/json", "application/json; charset=utf-8"}

Returned(datapoints) == [raised |-> None, datapoints |-> datapoints]
Raised(exc) == [raised |-> exc, datapoints |-> <<>>]

\* get_data on the portal's answer to its GET.  A body that is JSON but no
\* object (null, an array) has no get(): data.get raises AttributeError.
get_data(response, tariff_type) ==
    IF response.exc # None THEN Returned(<<>>)
    ELSE IF ~IsJson(response.content_type) THEN Returned(<<>>)
    ELSE IF response.body = "invalid" THEN Returned(<<>>)
    ELSE IF response.body \in {"null", "array"} THEN Raised("AttributeError")
    ELSE IF response.isSuccess # "true" THEN Returned(<<>>)
    ELSE Returned(Transform(response.data, tariff_type))

----------------------------------------------------------------------------
\* Sensor (sensor_base.py) and the sensors async_setup_entry creates.

LOOKUP_DAYS == 30
ONGOING_LOOKUP_DAYS == 3
PARALLEL_DAYS == 5
MIN_UPDATE_INTERVAL_HOURS == 6

\* sensors of async_setup_entry, in order: consumption and cost for all
\* tariffs, then consumption and cost per time-of-use tariff.
tou_tariffs == <<TARIFF_OFF_PEAK, TARIFF_MID_PEAK, TARIFF_ON_PEAK>>
MetricOf(s) == IF s % 2 = 1 THEN "consumption" ELSE "cost"
TariffOf(s) == IF s <= 2 THEN None ELSE tou_tariffs[((s - 3) \div 2) + 1]

\* An optional datetime; the clock counts hours, sample times are seconds.
NoTime == [set |-> FALSE, t |-> 0]
Time(t) == [set |-> TRUE, t |-> t]

\* Sensor.__init__, with the position of the sensor's refresh cycle (pc),
\* the locals of async_update_historical that outlive a suspension (cycle_now,
\* cycle_scraper, executor_results), what the last cycle logged (outcome) and
\* the order in which the tasks of its last `with` block finished (completed).
NewSensor ==
    [pc |-> "idle", cycle_now |-> 0, cycle_scraper |-> Null,
     executor_results |-> <<>>, outcome |-> "none", completed |-> <<>>,
     last_data_timestamp |-> NoTime, last_update_time |-> NoTime,
     initial_fetch_done |-> FALSE, historical_states |-> <<>>,
     native_value |-> NullV]

\* The ThreadPoolExecutor of the cycle in its `with` block: the dates
\* submitted, how many tasks were started and finished, what the started
\* tasks return (results[i] is the future of dates[i]) and the tasks that
\* have finished, in the order they did.
NoPool == [owner |-> 0, dates |-> <<>>, started |-> 0, finished |-> 0,
           results |-> <<>>, order |-> <<>>]

\* The tasks a worker is running.
Running(p) == {i \in 1 .. p.started : \A k \in 1 .. Len(p.order) : p.order[k] # i}

\* A faulty throttle: the first-run flag is not looked at.
Throttled_NoInitialCheck(sn, t) ==
    /\ sn.last_update_time.set
    /\ t - sn.last_update_time.t < MIN_UPDATE_INTERVAL_HOURS

\* The throttle at the head of async_update_historical.
Throttled(sn, t) ==
    /\ sn.last_update_time.set
    /\ sn.initial_fetch_done
    /\ t - sn.last_update_time.t < MIN_UPDATE_INTERVAL_HOURS

\* The day "yesterday" of a clock reading in hours.
Yesterday(t) == (t \div 24) - 1

\* A faulty window: long only until a cycle has fetched.
LookbackDays_AfterFirstCycle(sn) ==
    IF ~sn.last_update_time.set THEN LOOKUP_DAYS ELSE ONGOING_LOOKUP_DAYS

\* lookback_days of a cycle.
LookbackDays(sn) ==
    IF ~sn.initial_fetch_done THEN LOOKUP_DAYS ELSE ONGOING_LOOKUP_DAYS

\* A faulty loop: it runs through today.
DatesToFetch_ThroughToday(yesterday, lookback_days) ==
    [i \in 1 .. lookback_days + 2 |-> yesterday - lookback_days + i - 1]

\* The dates the while loop submits, in order.
DatesToFetch(yesterday, lookback_days) ==
    [i \in 1 .. lookback_days + 1 |-> yesterday - lookback_days + i - 1]

\* A missing sort: the states stay as collected.
SortByDt_AsCollected(hs) == hs

\* hist_states.sort(key=lambda d: d.dt): a stable sort.
RECURSIVE InsertByDt(_, _)
InsertByDt(sorted, x) ==
    IF sorted = <<>> THEN <<x>>
    ELSE IF Head(sorted).dt <= x.dt
        THEN <<Head(sorted)>> \o InsertByDt(Tail(sorted), x)
    ELSE <<x>> \o sorted

RECURSIVE SortByDt(_)
SortByDt(hs) ==
    IF hs = <<>> THEN <<>>
    ELSE InsertByDt(SortByDt(SubSeq(hs, 1, Len(hs) - 1)), hs[Len(hs)])

\* The datapoints of one awaited result as HistoricalStates of a metric; a
\* task that raised contributes nothing (the except clause of the loop).
RECURSIVE Project(_, _)
Project(datapoints, metric) ==
    IF datapoints = <<>> THEN <<>>
    ELSE <<[state |-> Head(datapoints)[metric], dt |-> Head(datapoints).intervalEnd]>>
         \o Project(Tail(datapoints), metric)

\* A faulty loop: the first task that raised ends the collection.
RECURSIVE Collect_StopAtRaise(_, _)
Collect_StopAtRaise(executor_results, metric) ==
    IF executor_results = <<>> THEN <<>>
    ELSE IF Head(executor_results).raised # None THEN <<>>
    ELSE Project(Head(executor_results).datapoints, metric)
         \o Collect_StopAtRaise(Tail(executor_results), metric)

RECURSIVE Collect(_, _)
Collect(executor_results, metric) ==
    IF executor_results = <<>> THEN <<>>
    ELSE (IF Head(executor_results).raised # None THEN <<>>
          ELSE Project(Head(executor_results).datapoints, metric))
         \o Collect(Tail(executor_results), metric)

IsValidState(h) == h.state.t = "num"
IsNullState(h) == h.state.t = "null"
\* `if d.state`: truthiness of a state.
IsTruthyState(h) == h.state.t = "str" \/ (h.state.t = "num" /\ h.state.v # 0)

\* A faulty report: every cycle without a valid state logs the error.
AfterResults_ErrorWhenNoData(sn, metric) ==
    LET hist_states == SortByDt(Collect(sn.executor_results, metric))
        valid_datapoints == SelectSeq(hist_states, IsValidState)
        branch ==
            IF valid_datapoints = <<>>
            THEN [sn EXCEPT !.outcome = "ERROR no valid datapoints"]
            ELSE [sn EXCEPT !.outcome = "INFO found valid datapoints",
                            !.last_data_timestamp =
                                Time(valid_datapoints[Len(valid_datapoints)].dt),
                            !.initial_fetch_done = TRUE,
                            !.historical_states = SelectSeq(hist_states, IsTruthyState)]
        hs == branch.historical_states
    IN  [branch EXCEPT !.pc = "idle", !.executor_results = <<>>,
                       !.cycle_scraper = Null,
                       !.native_value = IF hs # <<>> THEN hs[Len(hs)].state ELSE Num(0)]

\* A faulty publication: the states are published whether or not the cycle
\* found a valid one.
AfterResults_PublishAlways(sn, metric) ==
    LET hist_states == SortByDt(Collect(sn.executor_results, metric))
        valid_datapoints == SelectSeq(hist_states, IsValidState)
        data_age == sn.cycle_now * 3600 - sn.last_data_timestamp.t
        branch ==
            IF valid_datapoints = <<>>
            THEN [sn EXCEPT !.outcome =
                      IF ~sn.last_data_timestamp.set THEN "WARNING no valid datapoints on first attempt"
                      ELSE IF data_age > 48 * 3600 THEN "ERROR no valid datapoints"
                      ELSE "DEBUG no new datapoints",
                            !.historical_states = SelectSeq(hist_states, IsTruthyState)]
            ELSE [sn EXCEPT !.outcome = "INFO found valid datapoints",
                            !.last_data_timestamp =
                                Time(valid_datapoints[Len(valid_datapoints)].dt),
                            !.initial_fetch_done = TRUE,
                            !.historical_states = SelectSeq(hist_states, IsTruthyState)]
        hs == branch.historical_states
    IN  [branch EXCEPT !.pc = "idle", !.executor_results = <<>>,
                       !.cycle_scraper = Null,
                       !.native_value = IF hs # <<>> THEN hs[Len(hs)].state ELSE Num(0)]

\* async_update_historical from the first await of a result to its end.
AfterResults(sn, metric) ==
    LET hist_states == SortByDt(Collect(sn.executor_results, metric))
        valid_datapoints == SelectSeq(hist_states, IsValidState)
        data_age == sn.cycle_now * 3600 - sn.last_data_timestamp.t
        branch ==
            IF valid_datapoints = <<>>
            THEN [sn EXCEPT !.outcome =
                      IF ~sn.last_data_timestamp.set THEN "WARNING no valid datapoints on first attempt"
                      ELSE IF data_age > 48 * 3600 THEN "ERROR no valid datapoints"
                      ELSE "DEBUG no new datapoints"]
            ELSE [sn EXCEPT !.outcome = "INFO found valid datapoints",
                            !.last_data_timestamp =
                                Time(valid_datapoints[Len(valid_datapoints)].dt),
                            !.initial_fetch_done = TRUE,
                            !.historical_states = SelectSeq(hist_states, IsTruthyState)]
        hs == branch.historical_states
    IN  [branch EXCEPT !.pc = "idle", !.executor_results = <<>>,
                       !.cycle_scraper = Null,
                       !.native_value = IF hs # <<>> THEN hs[Len(hs)].state ELSE Num(0)]

----------------------------------------------------------------------------
\* Sensor.async_calculate_statistic_data.  A time is in seconds, a state is
\* a float.

RECURSIVE Pow2(_)
Pow2(n) == IF n = 0 THEN 1 ELSE 2 * Pow2(n - 1)

Abs(x) == IF x < 0 THEN -x ELSE x

\* The distance between the floats around x.
RECURSIVE UlpFrom(_, _)
UlpFrom(x, u) == IF Abs(x) < Pow2(MantissaBits) * u THEN u ELSE UlpFrom(x, 2 * u)

\* The float nearest to x, the one with the even mantissa on a tie.
RoundFloat(x) ==
    LET u == UlpFrom(x, 1)
        q == x \div u
        r == x % u
    IN  IF 2 * r < u THEN q * u
        ELSE IF 2 * r > u THEN (q + 1) * u
        ELSE IF q % 2 = 0 THEN q * u
        ELSE (q + 1) * u

\* a + b on floats.
FloatAdd(a, b) == RoundFloat(a + b)

\* A faulty hour block: the time truncated to the hour, also on the hour.
hour_block_for_hist_state_Truncated(hist_state) ==
    hist_state.dt - (hist_state.dt % 3600)

\* The hour block of a state: XX:00:00 belongs to the previous hour.
hour_block_for_hist_state(hist_state) ==
    LET minute == (hist_state.dt \div 60) % 60
        second == hist_state.dt % 60
    IN  IF minute = 0 /\ second = 0
        THEN (hist_state.dt - 3600) - ((hist_state.dt - 3600) % 3600)
        ELSE hist_state.dt - (hist_state.dt % 3600)

\* itertools.groupby(hist_states, key=hour_block_for_hist_state): the runs of
\* consecutive states with the same key.
RECURSIVE GroupBy(_)
GroupBy(hist_states) ==
    IF hist_states = <<>> THEN <<>>
    ELSE LET dt == hour_block_for_hist_state(Head(hist_states))
             rest == GroupBy(Tail(hist_states))
         IN  IF rest # <<>> /\ rest[1].dt = dt
             THEN <<[dt |-> dt, collection |-> <<Head(hist_states)>> \o rest[1].collection]>>
                  \o Tail(rest)
             ELSE <<[dt |-> dt, collection |-> <<Head(hist_states)>>]>> \o rest

\* sum([x.state for x in collection]): added from the left, starting at 0.
RECURSIVE SumFrom(_, _)
SumFrom(total, collection) ==
    IF collection = <<>> THEN total
    ELSE SumFrom(FloatAdd(total, Head(collection).state.v), Tail(collection))

\* statistics.mean: the exact mean, kept as a fraction.
RECURSIVE ExactSum(_)
ExactSum(collection) ==
    IF collection = <<>> THEN 0
    ELSE Head(collection).state.v + ExactSum(Tail(collection))

Mean(collection) == [num |-> ExactSum(collection), den |-> Len(collection)]

StatisticData(start, state, mean, sum) ==
    [start |-> start, state |-> state, mean |-> mean, sum |-> sum]

\* A faulty loop: every record's running sum starts from the prior total.
RECURSIVE Accumulate_NoCarry(_, _)
Accumulate_NoCarry(groups, accumulated) ==
    IF groups = <<>> THEN <<>>
    ELSE LET collection == Head(groups).collection
             partial_sum == SumFrom(0, collection)
             new == FloatAdd(accumulated, partial_sum)
         IN  <<StatisticData(Head(groups).dt, partial_sum, Mean(collection), new)>>
             \o Accumulate_NoCarry(Tail(groups), accumulated)

\* The body of the loop over the groups.
RECURSIVE Accumulate(_, _)
Accumulate(groups, accumulated) ==
    IF groups = <<>> THEN <<>>
    ELSE LET collection == Head(groups).collection
             partial_sum == SumFrom(0, collection)
             new == FloatAdd(accumulated, partial_sum)
         IN  <<StatisticData(Head(groups).dt, partial_sum, Mean(collection), new)>>
             \o Accumulate(Tail(groups), new)

\* latest: None, or the last statistics row of the series.
Latest(sum) == [sum |-> sum]

\* A faulty start: the running sum starts at 0 whatever latest holds.
async_calculate_statistic_data_FromZero(hist_states, latest) ==
    Accumulate(GroupBy(hist_states), 0)

async_calculate_statistic_data(hist_states, latest) ==
    Accumulate(GroupBy(hist_states), IF latest # Null THEN latest.sum ELSE 0)

\* The latest row the caller holds after storing the records of a call.
LatestAfter(ret, latest) ==
    IF ret = <<>> THEN latest ELSE Latest(ret[Len(ret)].sum)

\* A call that has not been made, and one that returned ret.
NotCalled == [done |-> FALSE, ret |-> <<>>]
Called(ret) == [done |-> TRUE, ret |-> ret]

\* A list of states and a latest row, with the calls made on them: one on
\* the whole list, one on each part of the list split after `split`, and
\* one on the second part together with the last `overlap` states of the
\* first (the states a later cycle publishes again).
NoStat == [hist_states |-> <<>>, latest |-> Null, split |-> 0, overlap |-> 0,
           whole |-> NotCalled, first |-> NotCalled, second |-> NotCalled,
           again |-> NotCalled]

----------------------------------------------------------------------------
\* The portal's answers to the GET of get_data.

UsageResponse(exc, content_type, body, isSuccess, data) ==
    [exc |-> exc, content_type |-> content_type, body |-> body,
     isSuccess |-> isSuccess, data |-> data]

ConnectionFailure == UsageResponse("ConnectionError", "", "invalid", "missing", <<>>)
JsonObject(isSuccess, data) ==
    UsageResponse(None, "application/json", "object", isSuccess, data)

Entry(consumption, cost) == [consumption |-> consumption, cost |-> cost]

RawRecord(endDate, flatRate, offPeak, midPeak, onPeak) ==
    [endDate |-> endDate, flatRate |-> flatRate, offPeak |-> offPeak,
     midPeak |-> midPeak, onPeak |-> onPeak]

\* What the portal has published for a date: the day before the epoch has
\* an hour of the on-peak window with data in two buckets, listed before an
\* earlier interval that ends on the hour and has cost 0; the day before
\* that an hour whose bucket holds a string and a null, the third day back
\* answers with a JSON array, and every other day has no data.
Published(d) ==
    IF d = -1
    THEN JsonObject("true",
             <<RawRecord(EndDate(d, 18, 59, 59), Null, Null,
                         Entry(Num(80), Num(20)), Entry(Num(120), Num(30))),
               RawRecord(EndDate(d, 9, 0, 0), Null, Null,
                         Entry(Num(40), Num(0)), Null)>>)
    ELSE IF d = -2
    THEN JsonObject("true",
             <<RawRecord(EndDate(d, 10, 59, 59), Null, Null,
                         Entry(StrV, NullV), Null)>>)
    ELSE IF d = -3
    THEN UsageResponse(None, "application/json", "array", "missing", <<>>)
    ELSE JsonObject("true", <<>>)

\* The answer to the GET for a date: what is published, or a failure of
\* the connection.
DayResponses(d) == {ConnectionFailure, Published(d)}

----------------------------------------------------------------------------
\* The state after construction (async_setup_entry) and the steps.

AccountNumbers == {<<"1">>, <<"2">>}

NoCall == [response |-> Null, tariff_type |-> None, result |-> Null]

InitWith(accounts) ==
    /\ account_number \in accounts
    /\ scraper = Null
    /\ thread = [s \in Sensors |-> IdleThread]
    /\ sensor = [s \in Sensors |-> NewSensor]
    /\ pool = NoPool
    /\ now = 0
    /\ call = NoCall
    /\ stat = NoStat

Init == InitWith({<<"1">>})

\* The event loop runs one coroutine at a time and is blocked while a cycle
\* sits in the exit of its `with ThreadPoolExecutor` block.
LoopFree == \A s \in Sensors : sensor[s].pc # "with_block"

\* Hours pass between refresh cycles.
TickHours == {1, 6, 24}

Tick ==
    /\ \A s \in Sensors : sensor[s].pc = "idle"
    /\ \E d \in TickHours : now + d <= MaxNow /\ now' = now + d
    /\ UNCHANGED <<account_number, scraper, thread, sensor, pool, call, stat>>

\* async_update_historical up to `await loop.run_in_executor(None,
\* self._api.refresh_credentials)`: the throttle, then the thread is started.
CycleStart(s) ==
    /\ sensor[s].pc = "idle"
    /\ LoopFree
    /\ IF Throttled(sensor[s], now)
       THEN /\ sensor' = [sensor EXCEPT ![s].outcome = "DEBUG skipping update"]
            /\ UNCHANGED thread
       ELSE /\ sensor' = [sensor EXCEPT ![s].pc = "await_auth", ![s].cycle_now = now]
            /\ thread' = [thread EXCEPT ![s] = StartedThread]
    /\ UNCHANGED <<account_number, scraper, pool, now, call, stat>>

\* refresh_credentials called on its own.
Refresh(s) ==
    /\ sensor[s].pc = "idle"
    /\ thread[s].pc \in {"idle", "returned"}
    /\ thread' = [thread EXCEPT ![s] = StartedThread]
    /\ UNCHANGED <<account_number, scraper, sensor, pool, now, call, stat>>

\* A step of the thread of refresh_credentials: the answer to its request
\* arrives; when the flow returns, refresh_credentials finishes.
ThreadStep(s, t) ==
    /\ thread' = [thread EXCEPT ![s] = t]
    /\ scraper' = ScraperAfter(s, t, scraper)
    /\ UNCHANGED <<account_number, sensor, pool, now, call, stat>>

Bootstrap(s, answers) ==
    /\ thread[s].pc = "bootstrap"
    /\ \E res1 \in answers : ThreadStep(s, AfterBootstrap(thread[s], res1))

Login(s, answers) ==
    /\ thread[s].pc = "login"
    /\ \E res2 \in answers :
           ThreadStep(s, AfterLogin(thread[s], res2, account_number))

Navigate(s, answers) ==
    /\ thread[s].pc = "navigate"
    /\ \E res3 \in answers : ThreadStep(s, AfterNavigate(thread[s], res3))

\* async_update_historical resumed after refresh_credentials: the scraper is
\* read and, unless absent, every date of the window is submitted to the pool.
CycleResume(s) ==
    /\ sensor[s].pc = "await_auth"
    /\ thread[s].pc = "returned"
    /\ LoopFree
    /\ IF scraper = Null
       THEN /\ sensor' = [sensor EXCEPT ![s].pc = "idle",
                                        ![s].outcome = "ERROR failed to get scraper"]
            /\ UNCHANGED pool
       ELSE /\ sensor' = [sensor EXCEPT ![s].pc = "with_block",
                                        ![s].cycle_scraper = scraper]
            /\ pool' = [NoPool EXCEPT
                           !.owner = s,
                           !.dates = DatesToFetch(Yesterday(sensor[s].cycle_now),
                                                  LookbackDays(sensor[s]))]
    /\ UNCHANGED <<account_number, scraper, thread, now, call, stat>>

\* A faulty pool: a worker for every submitted date.
TaskStart_NoLimit ==
    /\ pool.owner # 0
    /\ pool.started < Len(pool.dates)
    /\ \E response \in DayResponses(pool.dates[pool.started + 1]) :
           pool' = [pool EXCEPT
                       !.started = @ + 1,
                       !.results = Append(@, get_data(response, TariffOf(pool.owner)))]
    /\ UNCHANGED <<account_number, scraper, thread, sensor, now, call, stat>>

\* A worker of the pool takes the next submitted date and sends its GET;
\* the portal's answer decides what get_data will return.
TaskStart ==
    /\ pool.owner # 0
    /\ pool.started < Len(pool.dates)
    /\ pool.started - pool.finished < PARALLEL_DAYS
    /\ \E response \in DayResponses(pool.dates[pool.started + 1]) :
           pool' = [pool EXCEPT
                       !.started = @ + 1,
                       !.results = Append(@, get_data(response, TariffOf(pool.owner)))]
    /\ UNCHANGED <<account_number, scraper, thread, sensor, now, call, stat>>

\* The running get_data of task i returns (or raises).
FinishTask(i) ==
    /\ i \in Running(pool)
    /\ pool' = [pool EXCEPT !.finished = @ + 1, !.order = Append(@, i)]
    /\ UNCHANGED <<account_number, scraper, thread, sensor, now, call, stat>>

\* The tasks finish in the order they were started.
TaskFinish ==
    /\ pool.finished < pool.started
    /\ FinishTask(pool.finished + 1)

\* The tasks finish in any order.
TaskFinishAny == \E i \in 1 .. pool.started : FinishTask(i)

\* A faulty exit: the `with` block is left once every task has started.
Join_AllStarted(s) ==
    /\ sensor[s].pc = "with_block"
    /\ pool.owner = s
    /\ pool.started = Len(pool.dates)
    /\ sensor' = [sensor EXCEPT ![s].pc = "await_results",
                                ![s].last_update_time = Time(sensor[s].cycle_now),
                                ![s].executor_results = pool.results,
                                ![s].completed = pool.order]
    /\ pool' = NoPool
    /\ UNCHANGED <<account_number, scraper, thread, now, call, stat>>

\* The `with` block is left once every task is done; the update time is
\* marked and the cycle suspends at the first `await executor_result`.
Join(s) ==
    /\ sensor[s].pc = "with_block"
    /\ pool.owner = s
    /\ pool.finished = Len(pool.dates)
    /\ sensor' = [sensor EXCEPT ![s].pc = "await_results",
                                ![s].last_update_time = Time(sensor[s].cycle_now),
                                ![s].executor_results = pool.results,
                                ![s].completed = pool.order]
    /\ pool' = NoPool
    /\ UNCHANGED <<account_number, scraper, thread, now, call, stat>>

\* The rest of the cycle: collect, sort, classify, publish.
Publish(s) ==
    /\ sensor[s].pc = "await_results"
    /\ LoopFree
    /\ sensor' = [sensor EXCEPT ![s] = AfterResults(sensor[s], MetricOf(s))]
    /\ UNCHANGED <<account_number, scraper, thread, pool, now, call, stat>>

\* Answers of the portal to the authentication flow in the refresh cycles.
CycleHomeResponses ==
    {[exc |-> "HTTPError", source |-> None, rvt |-> None],
     [exc |-> None, source |-> "tok", rvt |-> "tok"]}
CycleLoginResponses ==
    {[exc |-> "ReadTimeout", username_field |-> FALSE, log_in |-> FALSE,
      validation |-> None, accounts |-> <<>>],
     [exc |-> None, username_field |-> FALSE, log_in |-> FALSE,
      validation |-> None, accounts |-> GoodDashboard]}
CycleInsightsResponses ==
    {[exc |-> None, model_data |-> TRUE,
      partner |-> "tok", contract |-> "tok", premise |-> ""],
     [exc |-> None, model_data |-> TRUE,
      partner |-> "tok", contract |-> "tok", premise |-> "tok"]}

\* The steps of one sensor's refresh cycle and of its thread.
SensorNext(s) ==
    \/ CycleStart(s)
    \/ Bootstrap(s, CycleHomeResponses)
    \/ Login(s, CycleLoginResponses)
    \/ Navigate(s, CycleInsightsResponses)
    \/ CycleResume(s)
    \/ Join(s)
    \/ Publish(s)

\* One sensor polled over the hours.
Next ==
    \/ Tick
    \/ SensorNext(1)
    \/ TaskStart
    \/ TaskFinish

Spec == Init /\ [][Next]_vars

\* All sensors polled within the same hour: their cycles overlap.
NextShared ==
    \/ \E s \in Sensors : SensorNext(s)
    \/ TaskStart
    \/ TaskFinish

SpecShared == Init /\ [][NextShared]_vars

\* A sensor after its initial fetch: the state six hours after a first
\* cycle at hour 0 in which the portal answered every request and every
\* date with what it has published.
FirstThread ==
    AfterNavigate(
        AfterLogin(
            AfterBootstrap(StartedThread, [exc |-> None, source |-> "tok", rvt |-> "tok"]),
            [exc |-> None, username_field |-> FALSE, log_in |-> FALSE,
             validation |-> None, accounts |-> GoodDashboard],
            <<"1">>),
        [exc |-> None, model_data |-> TRUE,
         partner |-> "tok", contract |-> "tok", premise |-> "tok"])

FirstScraper == ScraperAfter(1, FirstThread, Null)

FirstDates == DatesToFetch(Yesterday(0), LOOKUP_DAYS)

SensorAfterInitialFetch ==
    AfterResults(
        [NewSensor EXCEPT
            !.pc = "await_results",
            !.cycle_scraper = FirstScraper,
            !.last_update_time = Time(0),
            !.executor_results =
                [i \in 1 .. Len(FirstDates) |->
                    get_data(Published(FirstDates[i]), TariffOf(1))],
            !.completed = [i \in 1 .. Len(FirstDates) |-> i]],
        MetricOf(1))

InitOrder ==
    /\ account_number = <<"1">>
    /\ scraper = FirstScraper
    /\ thread = [s \in Sensors |-> IF s = 1 THEN FirstThread ELSE IdleThread]
    /\ sensor = [s \in Sensors |-> IF s = 1 THEN SensorAfterInitialFetch ELSE NewSensor]
    /\ pool = NoPool
    /\ now = MIN_UPDATE_INTERVAL_HOURS
    /\ call = NoCall
    /\ stat = NoStat

\* The next cycle of that sensor, its tasks finishing in any order.
NextOrder ==
    \/ SensorNext(1)
    \/ TaskStart
    \/ TaskFinishAny

SpecOrder == InitOrder /\ [][NextOrder]_vars

\* What the portal had published for a date when the first cycle ran: of
\* the day before the epoch only an early hour of the night window.
PublishedEarly(d) ==
    IF d = -1
    THEN JsonObject("true",
             <<RawRecord(EndDate(d, 5, 0, 0), Null,
                         Entry(Num(60), Num(15)), Null, Null)>>)
    ELSE JsonObject("true", <<>>)

\* A sensor after a first cycle at hour 0 in which the portal answered every
\* request and every date with what it had published then.
SensorAfterEarlyFetch ==
    AfterResults(
        [NewSensor EXCEPT
            !.pc = "await_results",
            !.cycle_scraper = FirstScraper,
            !.last_update_time = Time(0),
            !.executor_results =
                [i \in 1 .. Len(FirstDates) |->
                    get_data(PublishedEarly(FirstDates[i]), TariffOf(1))],
            !.completed = [i \in 1 .. Len(FirstDates) |-> i]],
        MetricOf(1))

\* A day later: the sensor has not been polled yet, or only in that first
\* cycle.
InitStale ==
    /\ account_number = <<"1">>
    /\ \E fetched \in BOOLEAN :
           /\ scraper = IF fetched THEN FirstScraper ELSE Null
           /\ thread = [s \in Sensors |->
                           IF fetched /\ s = 1 THEN FirstThread ELSE IdleThread]
           /\ sensor = [s \in Sensors |->
                           IF fetched /\ s = 1 THEN SensorAfterEarlyFetch ELSE NewSensor]
    /\ pool = NoPool
    /\ now = 24
    /\ call = NoCall
    /\ stat = NoStat

\* The sensor polled over the following hours.
SpecStale == InitStale /\ [][Next]_vars

\* The authentication flow alone, on every answer of the portal.
InitAuth == InitWith(AccountNumbers)

NextAuth ==
    \/ Refresh(1)
    \/ Bootstrap(1, HomeResponses)
    \/ Login(1, LoginResponses)
    \/ Navigate(1, InsightsResponses)

SpecAuth == InitAuth /\ [][NextAuth]_vars

----------------------------------------------------------------------------
\* get_data alone, on the answers below.

TariffArgs == {None} \cup Tariffs

\* What a bucket of a raw record can hold: nothing, zeros, its own data, or
\* a cost without a consumption.  Each tariff has data of its own.
OwnData(tariff) ==
    IF tariff = "flatRate" THEN Entry(Num(50), Num(10))
    ELSE IF tariff = "offPeak" THEN Entry(Num(60), Num(15))
    ELSE IF tariff = "midPeak" THEN Entry(Num(80), Num(20))
    ELSE Entry(Num(120), Num(30))

BucketContents(tariff) ==
    {Null, Entry(Num(0), NullV), OwnData(tariff), Entry(NullV, Num(7))}

\* One raw record per hour of day (ending hh:59:59 on day 0) and content of
\* the four buckets.
HourlyRecords ==
    {RawRecord(EndDate(0, h, 59, 59), f, o, m, p) :
        h \in 0 .. 23, f \in BucketContents("flatRate"),
        o \in BucketContents("offPeak"),
        m \in {Null, OwnData("midPeak")}, p \in {Null, OwnData("onPeak")}}
    \cup
    {RawRecord(EndDate(0, h, 59, 59), Null, Null, m, p) :
        h \in 0 .. 23, m \in BucketContents("midPeak"),
        p \in BucketContents("onPeak")}

\* Records for the longer payloads: no end date, a bad end date, and hours
\* with data in several buckets.
FewRecords ==
    {RawRecord(NoEndDate, Null, Null, OwnData("midPeak"), OwnData("onPeak")),
     RawRecord(BadEndDate, OwnData("flatRate"), Null, Null, OwnData("onPeak")),
     RawRecord(EndDate(0, 18, 59, 59), Null, Null, OwnData("midPeak"), OwnData("onPeak")),
     RawRecord(EndDate(0, 8, 0, 0), OwnData("flatRate"), OwnData("offPeak"),
               OwnData("midPeak"), Null)}

\* Buckets without data (nulls, zeros) and one with text for a consumption.
DatalessBuckets ==
    {Entry(NullV, NullV), Entry(Num(0), Num(0)), Entry(NullV, Num(0)),
     Entry(StrV, NullV)}

\* Records at 12:30:00 whose four buckets hold the same such content.
DatalessRecords ==
    {RawRecord(EndDate(0, 12, 30, 0), b, b, b, b) : b \in DatalessBuckets}

Payloads ==
    {<<>>} \cup {<<r>> : r \in HourlyRecords \cup DatalessRecords}
    \cup UNION {[1 .. n -> FewRecords] : n \in 2 .. MaxRecords}

\* Failing answers, each with a payload that would yield a datapoint.
SomePayload == <<RawRecord(EndDate(0, 18, 59, 59), OwnData("flatRate"),
                           OwnData("offPeak"), OwnData("midPeak"), OwnData("onPeak"))>>

FailingResponses ==
    {UsageResponse(e, "application/json", "object", "true", SomePayload) :
        e \in Exceptions}
    \cup {UsageResponse(None, ct, "object", "true", SomePayload) : ct \in {"", "text/html"}}
    \cup {UsageResponse(None, ct, b, "missing", <<>>) :
            ct \in {"application/json", "application/json; charset=utf-8"},
            b \in {"invalid", "null", "array"}}
    \cup {JsonObject(ok, SomePayload) : ok \in {"false", "missing"}}

UsageResponses == FailingResponses \cup {JsonObject("true", d) : d \in Payloads}

\* A call of get_data that has not returned yet.
InitFetch ==
    /\ account_number = <<"1">>
    /\ scraper = Null
    /\ thread = [s \in Sensors |-> IdleThread]
    /\ sensor = [s \in Sensors |-> NewSensor]
    /\ pool = NoPool
    /\ now = 0
    /\ call \in [response : UsageResponses, tariff_type : TariffArgs, result : {Null}]
    /\ stat = NoStat

\* The call returns (or raises).
GetData ==
    /\ call.response # Null
    /\ call.result = Null
    /\ call' = [call EXCEPT !.result = get_data(call.response, call.tariff_type)]
    /\ UNCHANGED <<account_number, scraper, thread, sensor, pool, now, stat>>

NextFetch == GetData

SpecFetch == InitFetch /\ [][NextFetch]_vars

----------------------------------------------------------------------------
\* async_calculate_statistic_data alone, on the lists below.

\* Times of day 0 around the hours 17:00 and 18:00.
SampleTimes == {59400, 61200, 61201, 63000, 64800}
SampleValues == {3, -1}
SampleStates == {[state |-> Num(v), dt |-> t] : v \in SampleValues, t \in SampleTimes}

\* The lists the sensor hands over are in order of time.
TimeOrdered(hist_states) ==
    \A i \in 1 .. Len(hist_states) - 1 : hist_states[i].dt <= hist_states[i + 1].dt

HistStates ==
    {hs \in UNION {[1 .. n -> SampleStates] : n \in 0 .. MaxSamples} : TimeOrdered(hs)}

Latests == {Null, Latest(0), Latest(Pow2(MantissaBits))}

InitStats ==
    /\ account_number = <<"1">>
    /\ scraper = Null
    /\ thread = [s \in Sensors |-> IdleThread]
    /\ sensor = [s \in Sensors |-> NewSensor]
    /\ pool = NoPool
    /\ now = 0
    /\ call = NoCall
    /\ \E hs \in HistStates, latest \in Latests, split \in 0 .. MaxSamples :
           /\ split <= Len(hs)
           /\ stat = [NoStat EXCEPT !.hist_states = hs, !.latest = latest,
                                    !.split = split]

\* One call on the whole list.
CalculateWhole ==
    /\ ~stat.whole.done
    /\ stat' = [stat EXCEPT !.whole =
                    Called(async_calculate_statistic_data(stat.hist_states, stat.latest))]
    /\ UNCHANGED <<account_number, scraper, thread, sensor, pool, now, call>>

\* A call on the first part of the list.
CalculateFirst ==
    /\ ~stat.first.done
    /\ stat' = [stat EXCEPT !.first =
                    Called(async_calculate_statistic_data(
                               SubSeq(stat.hist_states, 1, stat.split), stat.latest))]
    /\ UNCHANGED <<account_number, scraper, thread, sensor, pool, now, call>>

\* Then a call on the second part, with the latest row the first call left.
CalculateSecond ==
    /\ stat.first.done
    /\ ~stat.second.done
    /\ stat' = [stat EXCEPT !.second =
                    Called(async_calculate_statistic_data(
                               SubSeq(stat.hist_states, stat.split + 1, Len(stat.hist_states)),
                               LatestAfter(stat.first.ret, stat.latest)))]
    /\ UNCHANGED <<account_number, scraper, thread, sensor, pool, now, call>>

NextStats ==
    \/ CalculateWhole
    \/ CalculateFirst
    \/ CalculateSecond

SpecStats == InitStats /\ [][NextStats]_vars

\* The states of a later cycle reach back into those of an earlier one: the
\* window of a cycle covers the days of the cycles before it.
InitRerun ==
    /\ account_number = <<"1">>
    /\ scraper = Null
    /\ thread = [s \in Sensors |-> IdleThread]
    /\ sensor = [s \in Sensors |-> NewSensor]
    /\ pool = NoPool
    /\ now = 0
    /\ call = NoCall
    /\ \E hs \in HistStates, latest \in Latests, split \in 0 .. MaxSamples,
          overlap \in 0 .. MaxSamples :
           /\ split <= Len(hs)
           /\ overlap <= split
           /\ stat = [NoStat EXCEPT !.hist_states = hs, !.latest = latest,
                                    !.split = split, !.overlap = overlap]

\* A call on the states of the later cycle, with the latest row the first
\* call left.
CalculateAgain ==
    /\ stat.first.done
    /\ ~stat.again.done
    /\ stat' = [stat EXCEPT !.again =
                    Called(async_calculate_statistic_data(
                               SubSeq(stat.hist_states, stat.split - stat.overlap + 1,
                                      Len(stat.hist_states)),
                               LatestAfter(stat.first.ret, stat.latest)))]
    /\ UNCHANGED <<account_number, scraper, thread, sensor, pool, now, call>>

NextRerun ==
    \/ CalculateFirst
    \/ CalculateAgain

SpecRerun == InitRerun /\ [][NextRerun]_vars

----------------------------------------------------------------------------
\* Properties of the authentication flow (SpecAuth).

FlowRequests == <<"GET /", "POST /", "POST /Accounts/OnEvent">>

BootstrapFailures ==
    {"Failed to connect to home page", "SCRAPE FAIL: no Source", "SCRAPE FAIL: no rvt"}
LoginFailures ==
    {"Login POST request timed out", "Connection error during login",
     "Login POST request failed", "LOGIN FAILED", "Failed to find Target Account",
     "Failed to find the OnEvent form"}
NavigateFailures ==
    {"Failed to Navigate to Insights", "Failed to find modelData", "Missing meter IDs"}

\* The attempt of thread t has ended in failure.
Failed(t) == t.pc = "returned" /\ t.meter_ids = Null

\* An account number as displayed, white space aside.
DisplayedNumber(div) == SelectSeq(div.number, LAMBDA c : c # SP)

\* An entry with the target's number and exactly one electricity marker.
IsTargetEntry(div) ==
    /\ div.number # NoElement
    /\ DisplayedNumber(div) = account_number
    /\ div.markers = 1

\* C3: the requests of an attempt are a prefix of bootstrap GET, login POST,
\* navigation POST; the login POST is sent only with Source and rvt
\* extracted, the navigation POST only after a page without login markers
\* on which the target account was found, and a failed attempt has sent
\* exactly the requests up to its failing step.
C3_RequestsInOrder ==
    LET t == thread[1]
        n == Len(t.requests)
    IN  /\ n <= 3
        /\ t.requests = SubSeq(FlowRequests, 1, n)
        /\ n >= 2 => t.source \notin {None, ""} /\ t.rvt \notin {None, ""}
        /\ n = 3 => /\ t.res2 # Null
                    /\ ~t.res2.username_field /\ ~t.res2.log_in
                    /\ t.target_account \in 1 .. Len(t.res2.accounts)
                    /\ IsTargetEntry(t.res2.accounts[t.target_account])
        /\ Failed(t) =>
              /\ t.log # <<>>
              /\ t.log[1] \in BootstrapFailures => n = 1
              /\ t.log[1] \in LoginFailures => n = 2
              /\ t.log[1] \in NavigateFailures => n = 3
              /\ t.log[1] \in BootstrapFailures \cup LoginFailures \cup NavigateFailures

C3_Witness ==
    /\ thread[1].pc = "returned"
    /\ thread[1].meter_ids # Null
    /\ thread[1].requests = FlowRequests

\* C4: a login answer holding "Log in" or LoginFormData.UserName ends the
\* attempt as a failed login, with or without a validation message: no
\* account is resolved and no navigation POST is sent.
C4_LoginPageRejected ==
    LET t == thread[1]
    IN  (t.res2 # Null /\ (t.res2.log_in \/ t.res2.username_field)) =>
            /\ Failed(t)
            /\ t.log[1] = "LOGIN FAILED"
            /\ t.target_account = 0
            /\ t.requests = <<"GET /", "POST /">>

C4_Witness ==
    /\ thread[1].res2 # Null
    /\ thread[1].res2.log_in /\ ~thread[1].res2.username_field
    /\ thread[1].res2.validation = None
    /\ thread[1].res2.accounts = GoodDashboard
    /\ account_number = <<"1">>
    /\ Failed(thread[1])

\* C5: the account resolved is an entry with the target's number and exactly
\* one electricity marker, one is resolved whenever such an entry exists,
\* and without one the attempt fails with account-not-found and sends no
\* navigation POST.
C5_AccountResolution ==
    LET t == thread[1]
        divs == t.res2.accounts
    IN  (t.res2 # Null /\ ~t.res2.log_in /\ ~t.res2.username_field) =>
            /\ t.target_account # 0 =>
                   /\ t.target_account \in 1 .. Len(divs)
                   /\ IsTargetEntry(divs[t.target_account])
            /\ (\E i \in 1 .. Len(divs) : IsTargetEntry(divs[i])) => t.target_account # 0
            /\ t.target_account = 0 =>
                   /\ Failed(t)
                   /\ t.log = <<"Failed to find Target Account">>
                   /\ t.requests = <<"GET /", "POST /">>

C5_Witness ==
    /\ thread[1].res2 # Null
    /\ Len(thread[1].res2.accounts) = 2
    /\ thread[1].res2.accounts[1].number = account_number
    /\ thread[1].res2.accounts[1].markers = 2
    /\ thread[1].res2.accounts[2].number = <<SP, "1", SP>>
    /\ thread[1].target_account = 2

\* C6: a cached scraper has a non-empty partner, contract and premise, and
\* an insights page lacking one of them fails the attempt and leaves the
\* cached scraper as it was.
LacksMeterId(res3) ==
    \E id \in {res3.partner, res3.contract, res3.premise} : id \in {None, ""}

C6_Cached ==
    scraper # Null =>
        /\ scraper.partner \notin {None, ""}
        /\ scraper.contract \notin {None, ""}
        /\ scraper.premise \notin {None, ""}

C6_NoScraperFrom ==
    (thread'[1].res3 # Null /\ LacksMeterId(thread'[1].res3)) =>
        /\ Failed(thread'[1])
        /\ scraper' = scraper

C6_MeterIdentity == []C6_Cached /\ [][C6_NoScraperFrom]_vars

C6_Witness ==
    /\ scraper # Null
    /\ thread[1].res3 # Null
    /\ thread[1].res3.model_data
    /\ thread[1].res3.premise = ""
    /\ Failed(thread[1])

\* C7 as stated: the outcome the caller of the flow receives for a failed
\* login POST tells timeout, connection error and other request error apart.
ErrorKind(e) ==
    IF IsTimeout(e) THEN "TimeoutError"
    ELSE IF IsConnectionError(e) THEN "ConnectivityError"
    ELSE "RequestError"

\* What refresh_credentials receives from the flow.
FlowOutcome(t) == IF t.meter_ids = Null THEN None ELSE "meter_ids"

LoginPostFailed(t) ==
    t.pc = "returned" /\ t.err # None /\ t.requests = <<"GET /", "POST /">>

C7_DistinctOutcomes ==
    LoginPostFailed(thread[1]) => FlowOutcome(thread[1]) = ErrorKind(thread[1].err)

\* C7 amended: a failed login POST gives the caller None whatever the
\* failure, creates no scraper and sends nothing more; only the message
\* logged tells timeout, connection error and other request error apart.
C7_Logged ==
    LET t == thread[1]
    IN  LoginPostFailed(t) =>
            /\ FlowOutcome(t) = None
            /\ t.log[1] = (IF ErrorKind(t.err) = "TimeoutError"
                               THEN "Login POST request timed out"
                           ELSE IF ErrorKind(t.err) = "ConnectivityError"
                               THEN "Connection error during login"
                           ELSE "Login POST request failed")

C7_SameOutcome == []C7_Logged /\ [][LoginPostFailed(thread'[1]) => scraper' = scraper]_vars

C7_Witness ==
    /\ LoginPostFailed(thread[1])
    /\ thread[1].err = "ConnectTimeout"
    /\ thread[1].log[1] = "Login POST request timed out"

----------------------------------------------------------------------------
\* Properties of get_data (SpecFetch).

\* The call has returned or raised.
CallDone == call.response # Null /\ call.result # Null

\* The answer is an object with isSuccess true, of JSON content type.
Successful(r) ==
    /\ r.exc = None
    /\ r.content_type \in {"application/json", "application/json; charset=utf-8"}
    /\ r.body = "object"
    /\ r.isSuccess = "true"

\* C8 as stated: on a network or HTTP error, a content type that is not
\* JSON, a body that does not parse, or a parsed payload whose isSuccess is
\* false or missing, get_data returns the empty list and does not raise.
FailedGet(r) ==
    \/ r.exc # None
    \/ r.content_type \notin {"application/json", "application/json; charset=utf-8"}
    \/ r.body = "invalid"
    \/ r.isSuccess \in {"false", "missing"}

C8_FailuresReturnEmpty ==
    (CallDone /\ FailedGet(call.response)) =>
        call.result.raised = None /\ call.result.datapoints = <<>>

\* The fixed schedule: off-peak 23:00-07:59, on-peak 17:00-18:59, mid-peak
\* all other hours.
ScheduleTariff(h) ==
    IF h = 23 \/ h \in 0 .. 7 THEN "offPeak"
    ELSE IF h \in {17, 18} THEN "onPeak"
    ELSE "midPeak"

\* Datapoint out is the content of bucket tariff of raw record dp.
IsBucketOf(out, dp, tariff) ==
    /\ dp.endDate.kind = "iso"
    /\ out.intervalEnd = Timestamp(dp.endDate)
    /\ out.tariff = tariff
    /\ dp[tariff] # Null
    /\ out.consumption = dp[tariff].consumption
    /\ out.cost = dp[tariff].cost

PeakHourRecord ==
    RawRecord(EndDate(0, 18, 59, 59), Null, Null,
              Entry(Num(80), Num(20)), Entry(Num(120), Num(30)))

Populated(b) ==
    /\ b # Null
    /\ \/ b.consumption \notin {NullV, Num(0)}
       \/ b.cost \notin {NullV, Num(0)}

\* The answer with every bucket but one emptied.
OnlyBucket(r, tariff) ==
    [r EXCEPT !.data = [i \in 1 .. Len(r.data) |->
        [f \in DOMAIN r.data[i] |->
            IF f \in {"endDate", tariff} THEN r.data[i][f] ELSE Null]]]

\* C10: with a tariff requested, every datapoint carries that tariff and the
\* consumption and cost of that bucket, a record yields a datapoint exactly
\* when that bucket is populated, whatever the hour, and emptying the other
\* buckets changes nothing.
C10_FilteredReadsOneBucket ==
    LET data == call.response.data
        out == call.result.datapoints
        t == call.tariff_type
    IN  (CallDone /\ t \in Tariffs /\ Successful(call.response)) =>
            /\ call.result.raised = None
            /\ \A k \in 1 .. Len(out) : \E i \in 1 .. Len(data) :
                   IsBucketOf(out[k], data[i], t)
            /\ Len(out) = Cardinality({i \in 1 .. Len(data) :
                   data[i].endDate.kind = "iso" /\ Populated(data[i][t])})
            /\ call.result = get_data(OnlyBucket(call.response, t), t)

C10_Witness ==
    /\ CallDone
    /\ call.tariff_type = "midPeak"
    /\ call.response = JsonObject("true", <<PeakHourRecord>>)
    /\ call.result.datapoints =
           <<[consumption |-> Num(80), cost |-> Num(20),
              intervalEnd |-> 68399, tariff |-> "midPeak"]>>

\* A value that is neither null nor zero.
NonNullNonZero(v) == v # NullV /\ v # Num(0)

\* The bucket get_data reads of record dp: the requested tariff, or without
\* one the tariff of the schedule.
ChosenBucket(dp, tariff_type) ==
    dp[IF tariff_type = None THEN ScheduleTariff(dp.endDate.hour) ELSE tariff_type]

\* C11: every datapoint get_data returns has a consumption or a cost that is
\* neither null nor zero, and the records that yield a datapoint are those
\* whose chosen bucket is present with such a consumption or cost: a record
\* whose chosen bucket is absent or holds only nulls and zeros yields none.
C11_DatapointsHaveData ==
    LET data == call.response.data
        out == call.result.datapoints
    IN  CallDone =>
            /\ \A k \in 1 .. Len(out) :
                   NonNullNonZero(out[k].consumption) \/ NonNullNonZero(out[k].cost)
            /\ Successful(call.response) =>
                   /\ Len(out) = Cardinality({i \in 1 .. Len(data) :
                          /\ data[i].endDate.kind = "iso"
                          /\ Populated(ChosenBucket(data[i], call.tariff_type))})
                   /\ (Len(data) = 1 /\ data[1].endDate.kind = "iso"
                          /\ ~Populated(ChosenBucket(data[1], call.tariff_type)))
                        => out = <<>>

C11_Witness ==
    /\ CallDone
    /\ call.tariff_type = "offPeak"
    /\ Len(call.response.data) = 1
    /\ call.response.data[1].offPeak = Entry(NullV, Num(7))
    /\ Len(call.result.datapoints) = 1
    /\ call.result.datapoints[1].consumption = NullV
    /\ call.result.datapoints[1].cost = Num(7)

\* Of the buckets of record dp only flatRate holds data.
OnlyFlatRate(dp) ==
    /\ dp.endDate.kind = "iso"
    /\ Populated(dp.flatRate)
    /\ \A t \in Tariffs \ {"flatRate"} : ~Populated(dp[t])

----------------------------------------------------------------------------
\* Properties of the refresh cycles (Spec, SpecShared).

\* The thread of refresh_credentials of sensor s is running.
Authenticating(s) == thread[s].pc \in {"bootstrap", "login", "navigate"}

\* C1 as stated: when the authentication of a sensor's refresh cycle has
\* failed, the cycle dispatches no usage fetch and no scraper is cached any
\* more, also when an earlier cycle had left one.
C1_AuthFailureAborts ==
    \A s \in Sensors :
        Failed(thread[s]) =>
            /\ scraper = Null
            /\ sensor[s].pc \notin {"with_block", "await_results"}
            /\ pool.owner # s

\* C2 as stated: while a thread of refresh_credentials is running, no task
\* of get_data is running.
C2_NoFetchDuringAuth ==
    pool.started > pool.finished => \A s \in Sensors : ~Authenticating(s)

\* The set of elements of a sequence.
Range(seq) == {seq[i] : i \in 1 .. Len(seq)}

\* C12: a cycle that dispatches submits exactly the dates from yesterday
\* minus lookback_days to yesterday, each once and in order, none of them
\* today or later; a worker starts one fetch per submitted date, and when
\* the cycle goes on to collect, one fetch per date has been made.
C12_OneFetchPerDate ==
    \A s \in Sensors :
        LET today == sensor[s].cycle_now \div 24
            lookback_days == LookbackDays(sensor[s])
        IN  /\ sensor[s].pc = "with_block" => pool.owner = s
            /\ pool.owner = s =>
                   /\ Range(pool.dates) = (today - 1 - lookback_days) .. (today - 1)
                   /\ Len(pool.dates) = lookback_days + 1
                   /\ \A i \in 1 .. Len(pool.dates) : pool.dates[i] < today
                   /\ pool.started <= Len(pool.dates)
                   /\ Len(pool.results) = pool.started
            /\ sensor[s].pc = "await_results" =>
                   /\ Len(sensor[s].executor_results) = lookback_days + 1
                   /\ Range(sensor[s].completed) = 1 .. (lookback_days + 1)

C12_Witness ==
    /\ sensor[1].pc = "await_results"
    /\ sensor[1].cycle_now = 25
    /\ Len(sensor[1].executor_results) = 4

\* C13 as stated: the window is 30 days in the first cycle of a sensor that
\* fetches and 3 days in every cycle after it.
C13_ThirtyThenThree ==
    \A s \in Sensors :
        pool.owner = s =>
            Len(pool.dates) = (IF sensor[s].last_update_time.set THEN 3 ELSE 30) + 1

\* C13 amended: the window is 30 days in every cycle until a cycle of the
\* sensor has found a valid datapoint, and 3 days in every cycle after that.
C13_LongUntilDataFound ==
    \A s \in Sensors :
        /\ sensor[s].initial_fetch_done <=> sensor[s].last_data_timestamp.set
        /\ pool.owner = s =>
               Len(pool.dates) = (IF sensor[s].last_data_timestamp.set THEN 3 ELSE 30) + 1

C13_Witness ==
    /\ pool.owner = 1
    /\ sensor[1].last_update_time.set
    /\ sensor[1].outcome = "WARNING no valid datapoints on first attempt"
    /\ Len(pool.dates) = 31

\* C14: a cycle that starts less than 6 hours after the sensor's last fetch,
\* with the initial fetch done, changes nothing of the sensor but what it
\* logs, starts no authentication and no fetch; a cycle that starts with the
\* initial fetch not done, or 6 hours or more after the last fetch, goes on
\* to authenticate.
CycleStarts(s) == sensor[s].pc = "idle" /\ sensor'[s] # sensor[s]

C14_Start(s) ==
    LET sn == sensor[s]
        recent == sn.last_update_time.set /\ now - sn.last_update_time.t < 6
        proceeds == sensor'[s].pc = "await_auth" /\ thread'[s].pc = "bootstrap"
    IN  CycleStarts(s) =>
            /\ (recent /\ sn.initial_fetch_done) =>
                   /\ sensor'[s] = [sn EXCEPT !.outcome = "DEBUG skipping update"]
                   /\ thread' = thread /\ pool' = pool /\ scraper' = scraper
            /\ ~sn.initial_fetch_done => proceeds
            /\ ~recent => proceeds

C14_Throttle == [][\A s \in Sensors : C14_Start(s)]_vars

C14_Witness ==
    /\ sensor[1].outcome = "DEBUG skipping update"
    /\ sensor[1].last_update_time.set
    /\ now - sensor[1].last_update_time.t = 5
    /\ sensor[1].historical_states # <<>>

\* C15: at most 5 fetch tasks of a cycle run at the same time.
C15_AtMostFiveRunning ==
    /\ Cardinality(Running(pool)) <= 5
    /\ pool.started - pool.finished <= 5

C15_Witness ==
    /\ Cardinality(Running(pool)) = 5
    /\ Len(pool.dates) = 31
    /\ pool.started < Len(pool.dates)

\* C16: a cycle leaves its `with` block only when every submitted date has
\* been started and has finished, and the sensor's published states, value
\* and data timestamp change only in the step after that, with one result
\* per submitted date at hand.
C16_Step(s) ==
    /\ (sensor[s].pc = "with_block" /\ sensor'[s].pc # "with_block") =>
           /\ pool.owner = s
           /\ pool.started = Len(pool.dates)
           /\ Running(pool) = {}
           /\ Range(pool.order) = 1 .. Len(pool.dates)
    /\ (\/ sensor'[s].historical_states # sensor[s].historical_states
        \/ sensor'[s].native_value # sensor[s].native_value
        \/ sensor'[s].last_data_timestamp # sensor[s].last_data_timestamp) =>
           /\ sensor[s].pc = "await_results"
           /\ pool.owner # s
           /\ Len(sensor[s].executor_results) = LookbackDays(sensor[s]) + 1

C16_PublishAfterAllTasks == [][\A s \in Sensors : C16_Step(s)]_vars

C16_Witness ==
    /\ sensor[1].pc = "idle"
    /\ sensor[1].outcome = "INFO found valid datapoints"
    /\ Len(sensor[1].completed) = 31
    /\ Len(sensor[1].historical_states) = 2

\* The results a fetch of date d can give a sensor.
ResultsOfDate(s, d) == {get_data(response, TariffOf(s)) : response \in DayResponses(d)}

\* The positions <<i, k>> of the datapoints in the results of the tasks that
\* returned, and the state of sensor s at such a position.
Positions(results) ==
    UNION {{<<i, k>> : k \in 1 .. Len(results[i].datapoints)} :
              i \in {j \in 1 .. Len(results) : results[j].raised = None}}

StateAt(s, results, pos) ==
    [state |-> results[pos[1]].datapoints[pos[2]][MetricOf(s)],
     dt |-> results[pos[1]].datapoints[pos[2]].intervalEnd]

\* How often x occurs in a sequence.
Occurrences(seq, x) == Cardinality({i \in 1 .. Len(seq) : seq[i] = x})

\* Ascending by time.
Ascending(hs) == \A i, j \in 1 .. Len(hs) : i < j => hs[i].dt <= hs[j].dt

\* A state that is not null, zero or empty.
Truthy(h) == h.state # NullV /\ h.state # Num(0)

\* The step in which sensor s collects, sorts and publishes.
Publishes(s) == sensor[s].pc = "await_results" /\ sensor'[s].pc = "idle"

\* C17: whatever the order in which the tasks of a cycle finished, the
\* result collected for a date is the result of that date's fetch, and the
\* states the cycle publishes are ascending by time and are exactly the
\* non-empty states of the dates' results, each as often as it was returned:
\* they depend on the results per date alone.
C17_ResultsByDate ==
    \A s \in Sensors :
        /\ Ascending(sensor[s].historical_states)
        /\ sensor[s].pc = "await_results" =>
               LET results == sensor[s].executor_results
                   first == Yesterday(sensor[s].cycle_now) - LookbackDays(sensor[s])
               IN  \A i \in 1 .. Len(results) :
                       results[i] \in ResultsOfDate(s, first + i - 1)

C17_Published(s) ==
    LET results == sensor[s].executor_results
        out == sensor'[s].historical_states
        returned == {StateAt(s, results, pos) : pos \in Positions(results)}
    IN  (Publishes(s) /\ sensor'[s].outcome = "INFO found valid datapoints") =>
            /\ Ascending(out)
            /\ \A x \in returned \cup Range(out) :
                   Occurrences(out, x) =
                       IF Truthy(x)
                       THEN Cardinality({pos \in Positions(results) :
                                StateAt(s, results, pos) = x})
                       ELSE 0

C17_SortedWhateverOrder ==
    []C17_ResultsByDate /\ [][\A s \in Sensors : C17_Published(s)]_vars

C17_Witness ==
    /\ sensor[1].pc = "idle"
    /\ sensor[1].cycle_now = 6
    /\ sensor[1].completed = <<4, 2, 3, 1>>
    /\ sensor[1].outcome = "INFO found valid datapoints"
    /\ Len(sensor[1].historical_states) = 3

\* A task that failed: it raised, or returned nothing.
FailedTask(result) == result.raised # None \/ result.datapoints = <<>>

\* C18: with the task of some date failed, every task of the cycle has still
\* run to its end, the states collected from the results are those of all
\* the datapoints the other tasks returned, and the cycle goes on to its
\* end, publishing every non-empty one of them when it has found a valid
\* datapoint.
C18_Collected ==
    \A s \in Sensors :
        LET results == sensor[s].executor_results
            hist_states == Collect(results, MetricOf(s))
        IN  (sensor[s].pc = "await_results"
                /\ \E i \in 1 .. Len(results) : FailedTask(results[i])) =>
                /\ Len(results) = LookbackDays(sensor[s]) + 1
                /\ Range(sensor[s].completed) = 1 .. Len(results)
                /\ Len(hist_states) = Cardinality(Positions(results))
                /\ \A pos \in Positions(results) :
                       Occurrences(hist_states, StateAt(s, results, pos)) =
                           Cardinality({q \in Positions(results) :
                               StateAt(s, results, q) = StateAt(s, results, pos)})

C18_Completes(s) ==
    LET results == sensor[s].executor_results
    IN  (sensor[s].pc = "await_results" /\ sensor'[s] # sensor[s]
            /\ \E i \in 1 .. Len(results) : FailedTask(results[i])) =>
            /\ sensor'[s].pc = "idle"
            /\ sensor'[s].outcome = "INFO found valid datapoints" =>
                   \A pos \in Positions(results) :
                       Truthy(StateAt(s, results, pos)) =>
                           StateAt(s, results, pos) \in Range(sensor'[s].historical_states)

C18_FailureIsolated ==
    []C18_Collected /\ [][\A s \in Sensors : C18_Completes(s)]_vars

C18_Witness ==
    /\ sensor[1].pc = "await_results"
    /\ Len(sensor[1].executor_results) = 31
    /\ sensor[1].executor_results[29].raised = "AttributeError"
    /\ sensor[1].executor_results[30].datapoints = <<>>
    /\ Len(sensor[1].executor_results[31].datapoints) = 2

----------------------------------------------------------------------------
\* Properties of async_calculate_statistic_data (SpecStats).

\* The start of the hour window of a time: the hour before for a time on the
\* hour, the hour of the time otherwise.
WindowStart(t) == IF t % 3600 = 0 THEN t - 3600 ELSE (t \div 3600) * 3600

\* The states of a list that fall in the window starting at w.
InWindow(hist_states, w) ==
    {i \in 1 .. Len(hist_states) : WindowStart(hist_states[i].dt) = w}

\* C19: on a list in order of time the call returns one record per window
\* that holds a state, the window starts strictly increasing, each record
\* made of the states of its window, a state on the hour counted to the
\* window one hour before (17:00:00 to 16:00) and every other state to the
\* hour of its time.
C19_OneRecordPerWindow ==
    LET hs == stat.hist_states
        ret == stat.whole.ret
        windows == {WindowStart(hs[i].dt) : i \in 1 .. Len(hs)}
    IN  (stat.whole.done /\ TimeOrdered(hs)) =>
            /\ Len(ret) = Cardinality(windows)
            /\ {ret[k].start : k \in 1 .. Len(ret)} = windows
            /\ \A k \in 1 .. Len(ret) - 1 : ret[k].start < ret[k + 1].start
            /\ \A k \in 1 .. Len(ret) :
                   ret[k].mean.den = Cardinality(InWindow(hs, ret[k].start))
            /\ (\E i \in 1 .. Len(hs) : hs[i].dt = 61200) =>
                   \E k \in 1 .. Len(ret) : ret[k].start = 57600
            /\ (\A i \in 1 .. Len(hs) : hs[i].dt = 61200) =>
                   \A k \in 1 .. Len(ret) : ret[k].start # 61200

C19_Witness ==
    /\ stat.whole.done
    /\ Len(stat.hist_states) = 3
    /\ stat.hist_states[1].dt = 59400
    /\ stat.hist_states[2].dt = 61200
    /\ stat.hist_states[3].dt = 61201
    /\ Len(stat.whole.ret) = 2
    /\ stat.whole.ret[1].start = 57600
    /\ stat.whole.ret[1].mean.den = 2
    /\ stat.whole.ret[2].start = 61200

\* The running sum a caller holds after a call: that of the last record, or
\* the prior one when the call returned no record.
PriorSum(latest) == IF latest # Null THEN latest.sum ELSE 0
FinalSum(ret, prior) == IF ret # <<>> THEN ret[Len(ret)].sum ELSE prior

SplitDone == stat.whole.done /\ stat.first.done /\ stat.second.done

SplitSum == FinalSum(stat.second.ret, FinalSum(stat.first.ret, PriorSum(stat.latest)))
WholeSum == FinalSum(stat.whole.ret, PriorSum(stat.latest))

\* C20 as stated: for every split point the two calls end with the running
\* sum of the one call.
C20_SplitSameSum == SplitDone => SplitSum = WholeSum

\* The split falls between two windows, or leaves a part empty.
SplitBetweenWindows ==
    \/ stat.split = 0
    \/ stat.split = Len(stat.hist_states)
    \/ WindowStart(stat.hist_states[stat.split].dt)
          # WindowStart(stat.hist_states[stat.split + 1].dt)

\* C20 amended: for every split point that falls between two hour windows
\* (or leaves a part empty) the two calls end with the running sum of the
\* one call, and return between them the records of the one call.
C20_SplitBetweenWindowsSameSum ==
    (SplitDone /\ TimeOrdered(stat.hist_states) /\ SplitBetweenWindows) =>
        /\ SplitSum = WholeSum
        /\ stat.first.ret \o stat.second.ret = stat.whole.ret

C20_Witness ==
    /\ SplitDone
    /\ stat.latest = Latest(Pow2(MantissaBits))
    /\ Len(stat.hist_states) = 3
    /\ stat.split = 2
    /\ stat.hist_states[2].dt = 61200
    /\ stat.hist_states[3].dt = 61201
    /\ Len(stat.first.ret) = 1
    /\ Len(stat.second.ret) = 1
    /\ SplitSum = WholeSum
    /\ WholeSum > Pow2(MantissaBits)

\* The states of a list in the window starting at w, in order.
WindowStates(hist_states, w) ==
    SelectSeq(hist_states, LAMBDA h : WindowStart(h.dt) = w)

\* The exact sum of the first k of a sequence of numbers.
RECURSIVE SumOfFirst(_, _)
SumOfFirst(numbers, k) ==
    IF k = 0 THEN 0 ELSE SumOfFirst(numbers, k - 1) + numbers[k]

\* No sum of these states with the prior total needs rounding.
SumsAreExact(hist_states, prior) ==
    LET n == Len(hist_states)
        magnitudes == [i \in 1 .. n |-> Abs(hist_states[i].state.v)]
    IN  Abs(prior) + SumOfFirst(magnitudes, n) < Pow2(MantissaBits)

\* C22: in the records of one call each period sum is the float sum of the
\* states of the record's window, each running sum is the prior total (0
\* without one) with the period sums up to the record added in order, which
\* is their exact sum where nothing is rounded, and with no negative state
\* the running sums never decrease.
C22_SumsOfRecords ==
    LET hs == stat.hist_states
        ret == stat.whole.ret
        prior == PriorSum(stat.latest)
        periods == [k \in 1 .. Len(ret) |-> ret[k].state]
    IN  (stat.whole.done /\ TimeOrdered(hs)) =>
            /\ \A k \in 1 .. Len(ret) :
                   /\ ret[k].state = SumFrom(0, WindowStates(hs, ret[k].start))
                   /\ ret[k].sum =
                          FloatAdd(IF k = 1 THEN prior ELSE ret[k - 1].sum, ret[k].state)
                   /\ SumsAreExact(hs, prior) =>
                          /\ ret[k].state = ExactSum(WindowStates(hs, ret[k].start))
                          /\ ret[k].sum = prior + SumOfFirst(periods, k)
            /\ (\A i \in 1 .. Len(hs) : hs[i].state.v >= 0) =>
                   /\ \A k \in 1 .. Len(ret) - 1 : ret[k].sum <= ret[k + 1].sum
                   /\ \A k \in 1 .. Len(ret) : prior <= ret[k].sum

C22_Witness ==
    /\ stat.whole.done
    /\ stat.latest = Latest(0)
    /\ Len(stat.hist_states) = 3
    /\ stat.hist_states[1].state.v = 3
    /\ stat.hist_states[2].state.v = -1
    /\ stat.hist_states[3].state.v = 3
    /\ Len(stat.whole.ret) = 2
    /\ stat.whole.ret[1].state = 2
    /\ stat.whole.ret[1].sum = 2
    /\ stat.whole.ret[2].state = 3
    /\ stat.whole.ret[2].sum = 5

\* C21 as stated: a call on states that overlap those of an earlier call,
\* with the running sum of the earlier call as prior, starts from that sum
\* and ends with the running sum of a call on the new states alone: a state
\* counted by the earlier call is not added again.
C21_NoDoubleApply ==
    LET hs == stat.hist_states
        carried == FinalSum(stat.first.ret, PriorSum(stat.latest))
        latest == LatestAfter(stat.first.ret, stat.latest)
        new == SubSeq(hs, stat.split + 1, Len(hs))
        ret == stat.again.ret
    IN  stat.again.done =>
            /\ ret # <<>> => ret[1].sum = FloatAdd(carried, ret[1].state)
            /\ FinalSum(ret, carried)
                   = FinalSum(async_calculate_statistic_data(new, latest), carried)

\* C24 as stated: the published historical states of a sensor hold only
\* states that are numbers; a null or a non-numeric state of a fetch is never
\* published, also when the cycle found valid states.
C24_OnlyNumbersPublished ==
    \A s \in Sensors :
        \A k \in 1 .. Len(sensor[s].historical_states) :
            sensor[s].historical_states[k].state.t = "num"

\* The valid states among the results a cycle is about to collect.
ValidCollected(s) ==
    SelectSeq(Collect(sensor[s].executor_results, MetricOf(s)), IsValidState)

\* C25: a cycle that finds no valid state leaves the published historical
\* states and the first-run flag as they were; no step clears the flag once
\* it is set; and at the end of a cycle that got its scraper the current
\* value is the state of the last published historical state, or 0 when
\* nothing is published.
C25_Step ==
    \A s \in Sensors :
        /\ (Publishes(s) /\ ValidCollected(s) = <<>>) =>
               /\ sensor'[s].historical_states = sensor[s].historical_states
               /\ sensor'[s].initial_fetch_done = sensor[s].initial_fetch_done
        /\ sensor[s].initial_fetch_done => sensor'[s].initial_fetch_done
        /\ Publishes(s) =>
               LET hs == sensor'[s].historical_states
               IN  sensor'[s].native_value
                       = IF hs # <<>> THEN hs[Len(hs)].state ELSE Num(0)

C25_NoDataLeavesPublished == [][C25_Step]_vars

\* A cycle after the initial fetch found nothing: the states of the initial
\* fetch are still published and the current value is the last of them.
C25_Witness ==
    /\ sensor[1].pc = "idle"
    /\ sensor[1].outcome = "DEBUG no new datapoints"
    /\ sensor[1].initial_fetch_done
    /\ Len(sensor[1].historical_states) >= 2
    /\ sensor[1].native_value
           = sensor[1].historical_states[Len(sensor[1].historical_states)].state

\* The age in seconds of the last retrieved sample at the time of a cycle.
DataAge(s) == sensor[s].cycle_now * 3600 - sensor[s].last_data_timestamp.t

\* C23: a cycle that finds no valid state logs the error only if an earlier
\* cycle retrieved a sample and the latest such sample is more than 48 hours
\* older than the time of the cycle; when it is at most 48 hours old the
\* cycle logs no error.
C23_Step ==
    \A s \in Sensors :
        (Publishes(s) /\ ValidCollected(s) = <<>>) =>
            /\ sensor'[s].outcome = "ERROR no valid datapoints" =>
                   /\ sensor[s].last_data_timestamp.set
                   /\ DataAge(s) > 48 * 3600
            /\ (sensor[s].last_data_timestamp.set /\ DataAge(s) <= 48 * 3600) =>
                   sensor'[s].outcome \notin {"ERROR no valid datapoints",
                                             "ERROR failed to get scraper"}

C23_AtThreshold ==
    /\ sensor[1].pc = "idle"
    /\ sensor[1].outcome = "DEBUG no new datapoints"
    /\ DataAge(1) = 48 * 3600

====
